---- MODULE Spec2Model ----
(***************************************************************************)
(* A model of kernel.py: redshift distributions (dNdz), window functions   *)
(* (WindowFunction and derived classes) and the correlation kernel         *)
(* (Kernel, GalaxyGalaxyLensingKernel), with the cosmology.MultiEpoch      *)
(* objects they share.                                                     *)
(*                                                                         *)
(* Floats are modelled as exact rationals <<n, d>> with d >= 0; <<1, 0>>   *)
(* is inf, <<-1, 0>> is -inf and <<0, 0>> is nan, with the IEEE rules numpy *)
(* applies to them.  Redshifts are even integers, comoving distances are   *)
(* integers, so that every grid the code builds with numpy.linspace over   *)
(* WindowNPoints or KernelNPoints points falls on integers.                *)
(***************************************************************************)
EXTENDS Integers, Sequences, FiniteSets, TLC

(***************************************************************************)
(* Bounds of the model.                                                    *)
(***************************************************************************)
\* cosmologies a cosmo_dict can select: 1 .. NParams
NParams == 2
\* calls made on the objects in one run
MaxCalls == 3

(***************************************************************************)
(* Float arithmetic.  The(S) is the element of a one-element set S: writing *)
(* The({e(a) : a \in {x}}) evaluates x once, whatever the number of times  *)
(* e uses it.                                                              *)
(***************************************************************************)
The(S) == CHOOSE x \in S : TRUE

Abs(x) == IF x < 0 THEN -x ELSE x

RECURSIVE GCD(_, _)
GCD(a, b) == IF b = 0 THEN a ELSE The({GCD(y, x % y) : x \in {a}, y \in {b}})

Sign(x) == IF x > 0 THEN 1 ELSE IF x < 0 THEN -1 ELSE 0

\* the float n/d in lowest terms; d = 0 gives inf, -inf or nan
Float(n, d) ==
    IF d = 0 THEN <<Sign(n), 0>>
    ELSE The({<<(Sign(d) * n) \div g, Abs(d) \div g>> : g \in {GCD(Abs(n), Abs(d))}})

Zero == <<0, 1>>
One == <<1, 1>>
Inf == <<1, 0>>
NaN == <<0, 0>>

IsNaN(x) == x = NaN
IsFinite(x) == x[2] # 0

FMul(x, y) == The({Float(a[1] * b[1], a[2] * b[2]) : a \in {x}, b \in {y}})

FDiv(x, y) == The({Float(a[1] * b[2], a[2] * b[1]) : a \in {x}, b \in {y}})

AddValues(x, y) ==
    IF IsNaN(x) \/ IsNaN(y) THEN NaN
    ELSE IF x[2] = 0 /\ y[2] = 0 THEN (IF x = y THEN x ELSE NaN)
    ELSE IF x[2] = 0 THEN x
    ELSE IF y[2] = 0 THEN y
    ELSE Float(x[1] * y[2] + y[1] * x[2], x[2] * y[2])

FAdd(x, y) == The({AddValues(a, b) : a \in {x}, b \in {y}})

FSub(x, y) == The({AddValues(a, <<-b[1], b[2]>>) : a \in {x}, b \in {y}})

\* x > y as numpy compares floats: false when either is nan
FGreater(x, y) ==
    /\ ~IsNaN(x) /\ ~IsNaN(y)
    /\ x # y
    /\ IF x[2] = 0 THEN x[1] > 0
       ELSE IF y[2] = 0 THEN y[1] < 0
       ELSE x[1] * y[2] > y[1] * x[2]

RECURSIVE SumValues(_)
SumValues(s) == IF s = <<>> THEN Zero ELSE FAdd(Head(s), SumValues(Tail(s)))

SumSeq(s) == The({SumValues(v) : v \in {s}})

\* scipy.integrate.romberg(f, a, b) for a, b of equal parity, f being given by
\* its values on a..b: the composite midpoint rule over cells of width 2,
\* exact for the integrands of this model that are constant on each cell
Romberg(f, a, b) ==
    SumSeq([i \in 1..((b - a) \div 2) |-> FMul(<<2, 1>>, f[a + 2 * i - 1])])

(***************************************************************************)
(* The objects.                                                            *)
(***************************************************************************)
Profiles == {"d1"}
Adapters == {"c1", "c2"}
Windows == {"w1", "w2"}
Kernels == {"k1"}
\* the Kernel objects of the runs in which two kernels are made over the same
\* window functions
SharedKernels == {"k1", "k2"}
Params == 1..NParams
\* the redshift ranges [z_min, z_max] given to constructors: nested,
\* overlapping and disjoint ones
ZRanges == {<<0, 2>>, <<0, 4>>, <<2, 6>>}

VARIABLES
    cosmo,   \* cosmology.MultiEpoch objects: the cosmo_dict each one holds and
             \* the redshift range it was made for
    dndz,    \* dNdz objects: z_min, z_max, norm and the class of raw_dndz
    wf,      \* WindowFunction objects
    kernel,  \* Kernel objects
    last,    \* the last call made on any object: its arguments and outcome
    ncalls   \* the number of calls made so far

vars == <<cosmo, dndz, wf, kernel, last, ncalls>>

(***************************************************************************)
(* cosmology.MultiEpoch, as kernel.py uses it.  Under cosmo_dict p the     *)
(* comoving distance is (p + 1) * z, so E(z) = dchi/dz = p + 1.            *)
(***************************************************************************)
DefaultParams == 1

\* cosmology.MultiEpoch(z_min, z_max), as WindowFunction.__init__ makes it when
\* it is given no object
MultiEpoch(z_min, z_max) == [params |-> DefaultParams, z_min |-> z_min, z_max |-> z_max]

comoving_distance(p, z) == (p + 1) * z

\* the redshift of comoving distance chi, as a fraction <<n, d>>
redshift(p, chi) == <<chi, p + 1>>

E(p, z) == <<p + 1, 1>>

\* MultiEpoch.H0 and MultiEpoch._omega_m0 under cosmo_dict p
H0(p) == One

omega_m0(p) == One

\* numpy.linspace(a, b, n)[i], for i in 1..n
linspace(a, b, n) == [i \in 1..n |-> a + ((i - 1) * (b - a)) \div (n - 1)]

(***************************************************************************)
(* class dNdz                                                              *)
(***************************************************************************)
\* dNdz.__init__
dNdz_init(z_min, z_max, class) ==
    [z_min |-> z_min, z_max |-> z_max, norm |-> One, class |-> class]

\* raw_dndz of the base class, and of a dNdzGaussian whose z0 lies so far from
\* [z_min, z_max] that numpy.exp underflows to 0.0 on the whole domain
raw_dndz(dist, z) ==
    IF dist.class = "dNdz" THEN One ELSE Zero

\* the mask of numpy.where in dNdz.dndz: z = <<n, m>> lies in [z_min, z_max]
InRedshiftDomain(dist, z) ==
    /\ z[1] <= dist.z_max * z[2]
    /\ z[1] >= dist.z_min * z[2]

\* dNdz.dndz at one redshift z = <<n, m>>
dndz_at(dist, z) ==
    IF InRedshiftDomain(dist, z) THEN FMul(dist.norm, raw_dndz(dist, z)) ELSE Zero

\* dNdz.dndz on an array of redshifts
dndz_array(dist, zs) == [i \in 1..Len(zs) |-> dndz_at(dist, <<zs[i], 1>>)]

\* the integrand dNdz.normalize hands to integrate.romberg
normalize_integrand(dist, z) == dndz_at(dist, <<z, 1>>)

\* dNdz.normalize: the profile after the call
normalize(dist) ==
    LET integrand == [z \in dist.z_min..dist.z_max |-> normalize_integrand(dist, z)]
        norm == Romberg(integrand, dist.z_min, dist.z_max)
    IN  [dist EXCEPT !.norm = FDiv(One, norm)]

(***************************************************************************)
(* class WindowFunction, WindowFunctionGalaxy, WindowFunctionConvergence   *)
(***************************************************************************)
WindowNPoints == 3

\* filled and built_params are not fields of the class: filled is the number
\* of entries of _wf_array that the last run of _initialize_spline wrote,
\* built_params the cosmo_dict under which the last run that completed ran
NoWindow ==
    [constructed |-> FALSE, class |-> "none", z_min |-> 0, z_max |-> 0,
     cosmo |-> "none", chi_min |-> 0, chi_max |-> 0,
     initialized_spline |-> FALSE, chi_array |-> <<>>, wf_array |-> <<>>,
     wf_spline |-> <<>>, redshift_dist |-> "none", g_chi_min |-> 0,
     filled |-> 0, built_params |-> 0]

\* WindowFunction.set_cosmology_object: the window function after the call,
\* cs being the state of the MultiEpoch objects
wf_set_cosmology_object(cs, w, a) ==
    [w EXCEPT !.cosmo = a,
              !.chi_min = comoving_distance(cs[a].params, w.z_min),
              !.chi_max = comoving_distance(cs[a].params, w.z_max),
              !.initialized_spline = FALSE]

\* a set_cosmology that keeps the spline it finds
wf_set_cosmology_keeps_spline(cs, w) ==
    [w EXCEPT !.chi_min = comoving_distance(cs[w.cosmo].params, w.z_min),
              !.chi_max = comoving_distance(cs[w.cosmo].params, w.z_max)]

\* WindowFunction.set_cosmology, after self.cosmo.set_cosmology(cosmo_dict) has
\* left the MultiEpoch objects in state cs
wf_set_cosmology(cs, w) ==
    [w EXCEPT !.chi_min = comoving_distance(cs[w.cosmo].params, w.z_min),
              !.chi_max = comoving_distance(cs[w.cosmo].params, w.z_max),
              !.initialized_spline = FALSE]

\* WindowFunction.__init__
WindowFunction_init(cs, class, z_min, z_max, a, dist) ==
    The({[w1 EXCEPT !.chi_array = linspace(w1.chi_min, w1.chi_max, WindowNPoints),
                    !.wf_array = [i \in 1..WindowNPoints |-> Zero]] :
         w1 \in {wf_set_cosmology_object(
                    cs,
                    [NoWindow EXCEPT !.constructed = TRUE, !.class = class,
                                     !.z_min = z_min, !.z_max = z_max,
                                     !.redshift_dist = dist],
                    a)}})

\* chi_bound of WindowFunctionConvergence.raw_window_function: the lower bound
\* of the lensing integral of the window function at chi
lensing_lower_bound(w, chi) == IF chi < w.g_chi_min THEN w.g_chi_min ELSE chi

\* WindowFunctionConvergence._lensing_integrand
lensing_integrand(cs, ds, w, chi, chi0) ==
    LET z == redshift(cs[w.cosmo].params, chi)
        dzdchi == FDiv(One, E(cs[w.cosmo].params, z))
    IN  FMul(FMul(dzdchi, dndz_at(ds[w.redshift_dist], z)), Float(chi - chi0, chi))

\* the integral g_chi of WindowFunctionConvergence.raw_window_function, from
\* chi_bound to chi_max in this order, by the midpoint rule of Romberg
lensing_integral(cs, ds, w, chi) ==
    The({IF chi_bound <= w.chi_max
         THEN Romberg([x \in chi_bound..w.chi_max |-> lensing_integrand(cs, ds, w, x, chi)],
                      chi_bound, w.chi_max)
         ELSE FSub(Zero,
                   Romberg([x \in w.chi_max..chi_bound |-> lensing_integrand(cs, ds, w, x, chi)],
                           w.chi_max, chi_bound)) :
         chi_bound \in {lensing_lower_bound(w, chi)}})

\* WindowFunctionConvergence.raw_window_function: 3/2*omega_m0*g_chi/a with
\* g_chi scaled by H0*H0*chi and 1/a = 1 + z
convergence_raw_window_function(cs, ds, w, chi) ==
    The({FMul(FMul(FMul(<<3, 2>>, omega_m0(p)),
                   FMul(FMul(FMul(H0(p), H0(p)), <<chi, 1>>), g_chi)),
              FAdd(One, redshift(p, chi))) :
         p \in {cs[w.cosmo].params}, g_chi \in {lensing_integral(cs, ds, w, chi)}})

\* raw_window_function of WindowFunction (1.0), of WindowFunctionConvergence
\* and of WindowFunctionGalaxy
raw_window_function(cs, ds, w, chi) ==
    IF w.class = "WindowFunction" THEN One
    ELSE IF w.class = "WindowFunctionConvergence"
    THEN convergence_raw_window_function(cs, ds, w, chi)
    ELSE LET z == redshift(cs[w.cosmo].params, chi)
             dzdchi == FDiv(One, E(cs[w.cosmo].params, z))
         IN  FMul(dzdchi, dndz_at(ds[w.redshift_dist], z))

\* InterpolatedUnivariateSpline(x, y): an interpolant through the points (x, y)
Spline(x, y) == [x |-> x, y |-> y]

\* the segment of the interpolant that chi falls in, or is nearest to
segment(s, chi) ==
    IF chi < s.x[2] THEN 1
    ELSE CHOOSE j \in 1..(Len(s.x) - 1) :
            /\ s.x[j] <= chi
            /\ \A m \in 1..(Len(s.x) - 1) : s.x[m] <= chi => m <= j

\* the interpolant at chi: exact at the nodes, linear between two nodes and
\* continued linearly beyond the first and the last node
SplineAt(s, chi) ==
    IF \E j \in 1..Len(s.x) : s.x[j] = chi
    THEN s.y[CHOOSE j \in 1..Len(s.x) : s.x[j] = chi]
    ELSE The({FAdd(s.y[i], FMul(FSub(s.y[i + 1], s.y[i]),
                                <<chi - s.x[i], s.x[i + 1] - s.x[i]>>)) :
              i \in {segment(s, chi)}})

\* whether raw_window_function can raise: the base class returns 1.0; the
\* derived class calls into the cosmology object, which may raise
CanRaise(w) == w.class # "WindowFunction"

\* the grid points at which a build of w stops: 0 for a build that completes
FailPoints(w) == IF CanRaise(w) THEN 0..WindowNPoints ELSE {0}

\* a build that sets the flag and fits the spline whether or not
\* raw_window_function raised
wf_initialize_spline_finally(cs, ds, w, fail) ==
    The({[w EXCEPT !.wf_array = wf_array,
                   !.wf_spline = Spline(w.chi_array, wf_array),
                   !.initialized_spline = TRUE,
                   !.filled = IF fail = 0 THEN WindowNPoints ELSE fail - 1] :
         wf_array \in {[i \in 1..WindowNPoints |->
                          IF fail = 0 \/ i < fail
                          THEN raw_window_function(cs, ds, w, w.chi_array[i])
                          ELSE w.wf_array[i]]}})

\* WindowFunction._initialize_spline, raw_window_function raising at grid point
\* `fail` (0: it never raises): the window function after the call
wf_initialize_spline(cs, ds, w, fail) ==
    The({IF fail = 0
         THEN [w EXCEPT !.wf_array = wf_array,
                        !.wf_spline = Spline(w.chi_array, wf_array),
                        !.initialized_spline = TRUE,
                        !.filled = WindowNPoints,
                        !.built_params = cs[w.cosmo].params]
         ELSE [w EXCEPT !.wf_array = wf_array, !.filled = fail - 1] :
         wf_array \in {[i \in 1..WindowNPoints |->
                          IF fail = 0 \/ i < fail
                          THEN raw_window_function(cs, ds, w, w.chi_array[i])
                          ELSE w.wf_array[i]]}})

\* a test that asks for a build at every call
needs_build_always(w) == TRUE

\* the test window_function and write make before they build the spline
needs_build(w) == ~w.initialized_spline

\* the first lines of window_function and of write: the window function after
\* them
wf_ensure_spline(cs, ds, w, fail) ==
    IF needs_build(w) THEN wf_initialize_spline(cs, ds, w, fail) ELSE w

\* whether those lines raised
wf_ensure_raised(w, fail) == needs_build(w) /\ fail # 0

\* the number of raw_window_function calls those lines made
wf_ensure_raw_calls(w, fail) ==
    IF ~needs_build(w) THEN 0
    ELSE IF fail = 0 THEN WindowNPoints ELSE fail

\* the grid points at which raw_window_function may raise in a call on w
FailChoices(w) == IF needs_build(w) THEN FailPoints(w) ELSE {0}

\* a mask that leaves chi_max out
InChiDomain_open(w, chi) == chi < w.chi_max /\ chi >= w.chi_min

\* the mask of numpy.where in window_function
InChiDomain(w, chi) == chi <= w.chi_max /\ chi >= w.chi_min

\* the value window_function returns for one chi, the spline being built
window_function_at(w, chi) ==
    IF InChiDomain(w, chi) THEN SplineAt(w.wf_spline, chi) ELSE Zero

(***************************************************************************)
(* class Kernel, GalaxyGalaxyLensingKernel                                 *)
(***************************************************************************)
KernelNPoints == 3

\* special.jn_zeros(0, kernel_bessel_limit)[-1] and
\* special.jn_zeros(2, kernel_bessel_limit)[-1]
J0Limit == 16
J2Limit == 24

\* numpy.exp and numpy.log, k*theta being a power of two and its logarithm
\* counted in units of ln 2
Exp(ln_ktheta) == 2 ^ ln_ktheta
Log(ktheta) == CHOOSE l \in 0..ktheta : Exp(l) = ktheta

\* cosmo.growth_factor at redshift z = <<n, d>>: 1/(1 + z)
growth_factor(p, z) == FDiv(One, FAdd(One, Float(z[1], z[2])))

\* the float 0.0 among kernel values
KernelZero ==
    [lo |-> 0, hi |-> 0, order |-> 0, ktheta |-> 0, quad |-> FALSE, params |-> 0]

\* filled is not a field of the class: it is the number of entries of
\* _kernel_array that the last run of _initialize_spline wrote
NoKernel ==
    [constructed |-> FALSE, class |-> "none", initialized_spline |-> FALSE,
     ln_ktheta_min |-> 0, ln_ktheta_max |-> 0,
     window_function_a |-> "none", window_function_b |-> "none",
     z_min |-> 0, z_max |-> 0, cosmo |-> "none", chi_min |-> 0, chi_max |-> 0,
     window_norm |-> Zero, ln_ktheta_array |-> <<>>, kernel_array |-> <<>>,
     kernel_spline |-> <<>>, force_quad |-> FALSE, z_bar |-> 0, filled |-> 0]

\* no raw_window_function call on any window function
NoRawCalls == [w \in Windows |-> 0]

\* what raises in a call on a kernel: nothing, raw_window_function of window
\* function a or b at grid point `at` of its spline build, or the integrator
\* of raw_kernel at grid point `at` of the kernel's spline build
NoFail == [who |-> "none", at |-> 0]

\* the lazy spline builds of window functions wa and then wb, which the first
\* evaluation of a.window_function(chi)*b.window_function(chi) sets off: the
\* window functions after them, whether one raised, and the calls made
build_windows(cs, ds, wfs, wa, wb, fail) ==
    LET fa == IF fail.who = "a" THEN fail.at ELSE 0
        fb == IF fail.who = "b" THEN fail.at ELSE 0
        calls1 == [NoRawCalls EXCEPT ![wa] = wf_ensure_raw_calls(wfs[wa], fa)]
    IN  The({IF wf_ensure_raised(wfs[wa], fa)
             THEN [wf |-> wfs1, raised |-> TRUE, raw_calls |-> calls1]
             ELSE [wf |-> [wfs1 EXCEPT ![wb] = wf_ensure_spline(cs, ds, wfs1[wb], fb)],
                   raised |-> wf_ensure_raised(wfs1[wb], fb),
                   raw_calls |-> [calls1 EXCEPT ![wb] =
                                     @ + wf_ensure_raw_calls(wfs1[wb], fb)]] :
             wfs1 \in {[wfs EXCEPT ![wa] = wf_ensure_spline(cs, ds, wfs[wa], fa)]}})

\* the failures a call on a kernel over wa and wb can meet
WindowFails(wfs, wa, wb) ==
    {[who |-> "a", at |-> i] : i \in FailChoices(wfs[wa]) \ {0}}
    \cup {[who |-> "b", at |-> i] : i \in FailChoices(wfs[wb]) \ {0}}

\* the product of the two window functions at chi, their splines being built
window_product(wfs, k, chi) ==
    FMul(window_function_at(wfs[k.window_function_a], chi),
         window_function_at(wfs[k.window_function_b], chi))

\* the integral of the product of the window functions Kernel.__init__ stores
\* as _window_norm
window_norm_integral(wfs, k) ==
    LET product == [chi \in k.chi_min..k.chi_max |-> window_product(wfs, k, chi)]
    IN  Romberg(product, k.chi_min, k.chi_max)

\* Kernel._kernel_integrand(chi, 0.0): special.j0(0.0) is 1
kernel_integrand_0(cs, wfs, k, chi) ==
    The({FMul(window_product(wfs, k, chi), FMul(D_z, D_z)) :
         D_z \in {growth_factor(cs[k.cosmo].params,
                                redshift(cs[k.cosmo].params, chi))}})

\* numpy.argmax: the first nan if there is one, else the first maximum
argmax(v) ==
    IF \E i \in DOMAIN v : IsNaN(v[i])
    THEN CHOOSE i \in DOMAIN v :
            IsNaN(v[i]) /\ \A j \in DOMAIN v : IsNaN(v[j]) => i <= j
    ELSE CHOOSE i \in DOMAIN v :
            /\ \A j \in DOMAIN v : ~FGreater(v[j], v[i])
            /\ \A j \in DOMAIN v : j < i => FGreater(v[i], v[j])

\* Kernel._find_z_bar: the value it stores in z_bar
find_z_bar(cs, wfs, k) ==
    The({linspace(k.z_min, k.z_max, KernelNPoints)[argmax(v)] :
         v \in {[i \in 1..KernelNPoints |->
                    kernel_integrand_0(
                        cs, wfs, k,
                        comoving_distance(cs[k.cosmo].params,
                                          linspace(k.z_min, k.z_max, KernelNPoints)[i]))]}})

\* the merge of the redshift ranges in Kernel.__init__
init_merge_z(a, b, k) ==
    [k EXCEPT !.z_min = IF b.z_min < a.z_min THEN b.z_min ELSE a.z_min,
              !.z_max = IF b.z_max > a.z_max THEN b.z_max ELSE a.z_max]

\* the merge of the comoving distance ranges in Kernel.__init__
init_merge_chi(a, b, k) ==
    [k EXCEPT !.chi_min = IF b.chi_min < a.chi_min THEN b.chi_min ELSE a.chi_min,
              !.chi_max = IF b.chi_max > a.chi_max THEN b.chi_max ELSE a.chi_max]

\* a merge that takes both ranges from window function a
set_cosmology_merge_first(a, b, k) ==
    [k EXCEPT !.chi_min = a.chi_min, !.z_min = a.z_min,
              !.chi_max = a.chi_max, !.z_max = a.z_max]

\* the merge of both ranges in Kernel.set_cosmology
set_cosmology_merge(a, b, k) ==
    [k EXCEPT !.chi_min = IF b.chi_min < a.chi_min THEN b.chi_min ELSE a.chi_min,
              !.z_min = IF b.chi_min < a.chi_min THEN b.z_min ELSE a.z_min,
              !.chi_max = IF b.chi_max > a.chi_max THEN b.chi_max ELSE a.chi_max,
              !.z_max = IF b.chi_max > a.chi_max THEN b.z_max ELSE a.z_max]

\* both window functions are handed MultiEpoch object a: first wa, then wb
push_cosmology(cs, wfs, wa, wb, a) ==
    The({[wfs1 EXCEPT ![wb] = wf_set_cosmology_object(cs, wfs1[wb], a)] :
         wfs1 \in {[wfs EXCEPT ![wa] = wf_set_cosmology_object(cs, wfs[wa], a)]}})

\* the Bessel zero raw_kernel divides by k*theta
bessel_limit(k) == IF k.class = "Kernel" THEN J0Limit ELSE J2Limit

\* the upper bound raw_kernel computes for its integral
truncated_chi_max(k, ktheta) ==
    IF bessel_limit(k) \div ktheta >= k.chi_max THEN k.chi_max
    ELSE bessel_limit(k) \div ktheta

\* the upper bound raw_kernel hands to the integrator: integrate.quad is given
\* the truncated bound; integrate.romberg is given it by
\* GalaxyGalaxyLensingKernel and self.chi_max by Kernel
upper_bound(k, ktheta) ==
    IF k.force_quad \/ k.class = "GalaxyGalaxyLensingKernel"
    THEN truncated_chi_max(k, ktheta)
    ELSE k.chi_max

\* Kernel.raw_kernel and GalaxyGalaxyLensingKernel.raw_kernel: the integral of
\* D^2 W_a W_b J_order(ktheta chi) from lo to hi, named by what determines it
raw_kernel(cs, k, ln_ktheta) ==
    [lo |-> k.chi_min, hi |-> upper_bound(k, Exp(ln_ktheta)),
     order |-> IF k.class = "Kernel" THEN 0 ELSE 2,
     ktheta |-> Exp(ln_ktheta), quad |-> k.force_quad, params |-> cs[k.cosmo].params]

\* Kernel._initialize_spline, the integrator raising at grid point `fail` (0: it
\* never raises): the kernel after the call
kernel_initialize_spline(cs, k, fail) ==
    The({IF fail = 0
         THEN [k EXCEPT !.kernel_array = kernel_array,
                        !.kernel_spline = Spline(k.ln_ktheta_array, kernel_array),
                        !.initialized_spline = TRUE,
                        !.filled = KernelNPoints]
         ELSE [k EXCEPT !.kernel_array = kernel_array, !.filled = fail - 1] :
         kernel_array \in {[i \in 1..KernelNPoints |->
                              IF fail = 0 \/ i < fail
                              THEN raw_kernel(cs, k, k.ln_ktheta_array[i])
                              ELSE k.kernel_array[i]]}})

\* the test Kernel.kernel makes before it builds the spline
kernel_needs_build(k) == ~k.initialized_spline

\* the failures Kernel.kernel can meet
KernelFails(wfs, k) ==
    IF kernel_needs_build(k)
    THEN WindowFails(wfs, k.window_function_a, k.window_function_b)
         \cup {[who |-> "kernel", at |-> i] : i \in 1..KernelNPoints}
    ELSE {}

\* the first lines of Kernel.kernel: the spline build, whose first raw_kernel
\* evaluates the window functions and so builds their splines
kernel_ensure_spline(cs, ds, wfs, k, fail) ==
    IF ~kernel_needs_build(k)
    THEN [wf |-> wfs, kernel |-> k, raised |-> FALSE, raw_calls |-> NoRawCalls]
    ELSE The({IF built.raised
              THEN [wf |-> built.wf, kernel |-> k, raised |-> TRUE,
                    raw_calls |-> built.raw_calls]
              ELSE [wf |-> built.wf,
                    kernel |-> kernel_initialize_spline(
                                  cs, k, IF fail.who = "kernel" THEN fail.at ELSE 0),
                    raised |-> fail.who = "kernel",
                    raw_calls |-> built.raw_calls] :
              built \in {build_windows(cs, ds, wfs, k.window_function_a,
                                       k.window_function_b, fail)}})

\* the mask of numpy.where in Kernel.kernel
InKthetaDomain(k, ln_ktheta) ==
    ln_ktheta <= k.ln_ktheta_max /\ ln_ktheta >= k.ln_ktheta_min

\* the interpolant of the kernel at a node of its grid
KernelSplineAt(s, ln_ktheta) ==
    s.y[CHOOSE j \in 1..Len(s.x) : s.x[j] = ln_ktheta]

\* the value Kernel.kernel returns for one ln_ktheta, the spline being built
kernel_at(k, ln_ktheta) ==
    IF InKthetaDomain(k, ln_ktheta) THEN KernelSplineAt(k.kernel_spline, ln_ktheta)
    ELSE KernelZero

\* the functions of redshift handed to kernel_weighted_mean: the constant 1
\* and the redshift itself
WeightFunctions == {"one", "z"}
apply(function, z) == IF function = "one" THEN One ELSE Float(z[1], z[2])

\* the integral kernel_weighted_mean computes before it divides
weighted_integral(cs, wfs, k, function) ==
    LET integrand ==
            [chi \in k.chi_min..k.chi_max |->
                FMul(apply(function, redshift(cs[k.cosmo].params, chi)),
                     window_product(wfs, k, chi))]
    IN  Romberg(integrand, k.chi_min, k.chi_max)

\* Kernel.kernel_weighted_mean: the value returned, the splines being built
kernel_weighted_mean(cs, wfs, k, function) ==
    FDiv(weighted_integral(cs, wfs, k, function), k.window_norm)

(***************************************************************************)
(* The calls.                                                              *)
(***************************************************************************)
\* the record of a call: raw_calls[w] is the number of raw_window_function
\* calls it made on window function w
Call(op, obj, args, outcome, result, raw_calls) ==
    [op |-> op, obj |-> obj, args |-> args, outcome |-> outcome,
     result |-> result, raw_calls |-> raw_calls]

\* one more call is made
Count == ncalls < MaxCalls /\ ncalls' = ncalls + 1

\* d.normalize()
Normalize(d) ==
    /\ Count
    /\ dndz' = [dndz EXCEPT ![d] = normalize(dndz[d])]
    /\ last' = Call("dNdz.normalize", d, <<>>, "returned", <<>>, NoRawCalls)
    /\ UNCHANGED <<cosmo, wf, kernel>>

\* d.dndz(redshift)
DndzCall(d, zs) ==
    /\ Count
    /\ last' = Call("dNdz.dndz", d, zs, "returned", dndz_array(dndz[d], zs), NoRawCalls)
    /\ UNCHANGED <<cosmo, dndz, wf, kernel>>

\* w.set_cosmology(cosmo_dict)
WFSetCosmology(w, p) ==
    /\ Count
    /\ \E cs \in {[cosmo EXCEPT ![wf[w].cosmo].params = p]} :
          /\ cosmo' = cs
          /\ wf' = [wf EXCEPT ![w] = wf_set_cosmology(cs, wf[w])]
    /\ last' = Call("WindowFunction.set_cosmology", w, <<p>>, "returned", <<>>, NoRawCalls)
    /\ UNCHANGED <<dndz, kernel>>

\* w.set_cosmology_object(a)
WFSetCosmologyObject(w, a) ==
    /\ Count
    /\ wf' = [wf EXCEPT ![w] = wf_set_cosmology_object(cosmo, wf[w], a)]
    /\ last' = Call("WindowFunction.set_cosmology_object", w, <<a>>, "returned", <<>>,
                    NoRawCalls)
    /\ UNCHANGED <<cosmo, dndz, kernel>>

\* the arrays a caller passes to an evaluation: the points around the bounds
\* of [lo, hi]
QueryArrays(lo, hi) == {<<lo - 1, lo, hi, hi + 1>>}

\* w.window_function(chi)
WindowFunctionCall(w, chi, fail) ==
    /\ Count
    /\ \E w1 \in {wf_ensure_spline(cosmo, dndz, wf[w], fail)},
          raw_calls \in {[NoRawCalls EXCEPT ![w] = wf_ensure_raw_calls(wf[w], fail)]} :
           /\ wf' = [wf EXCEPT ![w] = w1]
           /\ last' = IF wf_ensure_raised(wf[w], fail)
                      THEN Call("WindowFunction.window_function", w, chi, "raised", <<>>,
                                raw_calls)
                      ELSE Call("WindowFunction.window_function", w, chi, "returned",
                                [i \in 1..Len(chi) |-> window_function_at(w1, chi[i])],
                                raw_calls)
    /\ UNCHANGED <<cosmo, dndz, kernel>>

\* w.write(output_file_name): the lines written are the pairs of _chi_array
\* and _wf_array
WindowFunctionWrite(w, fail) ==
    /\ Count
    /\ \E w1 \in {wf_ensure_spline(cosmo, dndz, wf[w], fail)},
          raw_calls \in {[NoRawCalls EXCEPT ![w] = wf_ensure_raw_calls(wf[w], fail)]} :
           /\ wf' = [wf EXCEPT ![w] = w1]
           /\ last' = IF wf_ensure_raised(wf[w], fail)
                      THEN Call("WindowFunction.write", w, <<>>, "raised", <<>>, raw_calls)
                      ELSE Call("WindowFunction.write", w, <<>>, "returned",
                                [i \in 1..WindowNPoints |-> <<w1.chi_array[i], w1.wf_array[i]>>],
                                raw_calls)
    /\ UNCHANGED <<cosmo, dndz, kernel>>

Outcome(raised) == IF raised THEN "raised" ELSE "returned"

\* k = Kernel(ktheta_min, ktheta_max, wa, wb, a, force_quad), or the same of
\* GalaxyGalaxyLensingKernel; when it raises no kernel object is made
NewKernel(k, class, kt, ws, a, force_quad, fail) ==
    /\ Count
    /\ ~kernel[k].constructed
    /\ \E k1 \in {[init_merge_z(wf[ws[1]], wf[ws[2]],
                                [NoKernel EXCEPT !.constructed = TRUE, !.class = class,
                                                 !.ln_ktheta_min = Log(kt[1]),
                                                 !.ln_ktheta_max = Log(kt[2]),
                                                 !.window_function_a = ws[1],
                                                 !.window_function_b = ws[2]])
                     EXCEPT !.cosmo = a]} :
       \E wfs1 \in {push_cosmology(cosmo, wf, ws[1], ws[2], a)} :
       \E k2 \in {init_merge_chi(wfs1[ws[1]], wfs1[ws[2]], k1)} :
       \E built \in {build_windows(cosmo, dndz, wfs1, ws[1], ws[2], fail)} :
          /\ wf' = built.wf
          /\ IF built.raised
             THEN kernel' = kernel
             ELSE \E k3 \in {[k2 EXCEPT
                                !.window_norm = window_norm_integral(built.wf, k2),
                                !.ln_ktheta_array =
                                    linspace(k2.ln_ktheta_min, k2.ln_ktheta_max,
                                             KernelNPoints),
                                !.kernel_array = [i \in 1..KernelNPoints |-> KernelZero],
                                !.force_quad = force_quad]} :
                     kernel' = [kernel EXCEPT ![k] =
                                   [k3 EXCEPT !.z_bar = find_z_bar(cosmo, built.wf, k3)]]
          /\ last' = Call("Kernel.__init__", k, <<>>, Outcome(built.raised), <<>>,
                          built.raw_calls)
    /\ UNCHANGED <<cosmo, dndz>>

\* k.set_cosmology(cosmo_dict); when a window function raises in _find_z_bar
\* the call ends there
KernelSetCosmology(k, p, fail) ==
    /\ Count
    /\ kernel[k].constructed
    /\ \E cs \in {[cosmo EXCEPT ![kernel[k].cosmo].params = p]} :
       \E wfs1 \in {push_cosmology(cs, wf, kernel[k].window_function_a,
                                   kernel[k].window_function_b, kernel[k].cosmo)} :
       \E k2 \in {set_cosmology_merge(wfs1[kernel[k].window_function_a],
                                      wfs1[kernel[k].window_function_b],
                                      [kernel[k] EXCEPT !.initialized_spline = FALSE])} :
       \E built \in {build_windows(cs, dndz, wfs1, k2.window_function_a,
                                   k2.window_function_b, fail)} :
          /\ cosmo' = cs
          /\ wf' = built.wf
          /\ kernel' = [kernel EXCEPT ![k] =
                           IF built.raised THEN k2
                           ELSE [k2 EXCEPT !.z_bar = find_z_bar(cs, built.wf, k2)]]
          /\ last' = Call("Kernel.set_cosmology", k, <<p>>, Outcome(built.raised), <<>>,
                          built.raw_calls)
    /\ UNCHANGED dndz

\* k.kernel(ln_ktheta)
KernelCall(k, ln_ktheta, fail) ==
    /\ Count
    /\ kernel[k].constructed
    /\ \E r \in {kernel_ensure_spline(cosmo, dndz, wf, kernel[k], fail)} :
          /\ wf' = r.wf
          /\ kernel' = [kernel EXCEPT ![k] = r.kernel]
          /\ last' = IF r.raised
                     THEN Call("Kernel.kernel", k, ln_ktheta, "raised", <<>>, r.raw_calls)
                     ELSE Call("Kernel.kernel", k, ln_ktheta, "returned",
                               [i \in 1..Len(ln_ktheta) |-> kernel_at(r.kernel, ln_ktheta[i])],
                               r.raw_calls)
    /\ UNCHANGED <<cosmo, dndz>>

\* k.kernel_weighted_mean(function)
KernelWeightedMean(k, function, fail) ==
    /\ Count
    /\ kernel[k].constructed
    /\ \E built \in {build_windows(cosmo, dndz, wf, kernel[k].window_function_a,
                                   kernel[k].window_function_b, fail)} :
          /\ wf' = built.wf
          /\ last' = IF built.raised
                     THEN Call("Kernel.kernel_weighted_mean", k, <<function>>, "raised",
                               <<>>, built.raw_calls)
                     ELSE Call("Kernel.kernel_weighted_mean", k, <<function>>, "returned",
                               <<kernel_weighted_mean(cosmo, built.wf, kernel[k], function)>>,
                               built.raw_calls)
    /\ UNCHANGED <<cosmo, dndz, kernel>>

\* the arguments given to the constructor of a kernel
KernelClasses == {"Kernel", "GalaxyGalaxyLensingKernel"}
KthetaRanges == {<<1, 4>>}
WindowPairs == {<<"w1", "w2">>}

(***************************************************************************)
(* The objects a run starts with: one dNdz object d1, and two window       *)
(* functions made from it or from a redshift range, each constructed with  *)
(* cosmo_multi_epoch = None and so holding a MultiEpoch object of its own. *)
(***************************************************************************)
ProfileArgs == {<<0, 4, "dNdz">>, <<2, 6, "dNdz">>, <<0, 2, "dNdzGaussianFar">>}

\* the constructor calls that make a window function: WindowFunction(z_min,
\* z_max) and WindowFunctionGalaxy(d1)
WindowArgs == {<<"WindowFunction", r>> : r \in ZRanges} \cup {<<"WindowFunctionGalaxy", "d1">>}

\* those of the first window function
FirstWindowArgs == {<<"WindowFunction", <<0, 4>>>>, <<"WindowFunctionGalaxy", "d1">>}

\* WindowFunctionConvergence.__init__: the profile is normalized, the window
\* function is made over [0, z_max] of the profile, and _g_chi_min is set
\* last, under the cosmology of the construction
WindowFunctionConvergence_init(cs, ds, d, a) ==
    [dndz |-> [ds EXCEPT ![d] = normalize(ds[d])],
     wf |-> The({[w1 EXCEPT !.g_chi_min = comoving_distance(cs[w1.cosmo].params, ds[d].z_min)] :
                 w1 \in {WindowFunction_init(cs, "WindowFunctionConvergence", 0,
                                             ds[d].z_max, a, d)}})]

\* WindowFunctionGalaxy.__init__, WindowFunctionConvergence.__init__ and
\* WindowFunction.__init__: the dNdz objects and the window function after the
\* constructor call
construct_window(cs, ds, args, a) ==
    IF args[1] = "WindowFunctionConvergence"
    THEN WindowFunctionConvergence_init(cs, ds, args[2], a)
    ELSE IF args[1] = "WindowFunctionGalaxy"
    THEN [dndz |-> [ds EXCEPT ![args[2]] = normalize(ds[args[2]])],
          wf |-> WindowFunction_init(cs, "WindowFunctionGalaxy", ds[args[2]].z_min,
                                     ds[args[2]].z_max, a, args[2])]
    ELSE [dndz |-> ds,
          wf |-> WindowFunction_init(cs, "WindowFunction", args[2][1], args[2][2],
                                     a, "none")]

Init ==
    /\ \E pa \in ProfileArgs, a1 \in FirstWindowArgs, a2 \in WindowArgs :
          \E cs \in {[a \in Adapters |-> MultiEpoch(0, 0)]} :
          \E c1 \in {construct_window(cs,
                                        [d \in Profiles |-> dNdz_init(pa[1], pa[2], pa[3])],
                                        a1, "c1")} :
          \E c2 \in {construct_window(cs, c1.dndz, a2, "c2")} :
              /\ dndz = c2.dndz
              /\ wf = [w \in Windows |-> IF w = "w1" THEN c1.wf ELSE c2.wf]
              /\ cosmo = [a \in Adapters |->
                             IF a = "c1" THEN MultiEpoch(c1.wf.z_min, c1.wf.z_max)
                             ELSE MultiEpoch(c2.wf.z_min, c2.wf.z_max)]
    /\ kernel = [k \in SharedKernels |-> NoKernel]
    /\ last = Call("none", "none", <<>>, "returned", <<>>, NoRawCalls)
    /\ ncalls = 0

\* the failures a call on kernel k can meet when it evaluates its window
\* functions, after it has invalidated their splines (reset) or not
ResetFails(ws) ==
    {NoFail} \cup WindowFails([w \in Windows |-> [wf[w] EXCEPT !.initialized_spline = FALSE]],
                              ws[1], ws[2])
WindowsOf(k) == <<kernel[k].window_function_a, kernel[k].window_function_b>>
SetCosmologyFails(k) == IF kernel[k].constructed THEN ResetFails(WindowsOf(k)) ELSE {}
KernelCallFails(k) ==
    IF kernel[k].constructed THEN {NoFail} \cup KernelFails(wf, kernel[k]) ELSE {}
WeightedMeanFails(k) ==
    IF kernel[k].constructed
    THEN {NoFail} \cup WindowFails(wf, WindowsOf(k)[1], WindowsOf(k)[2])
    ELSE {}

\* the calls made on a kernel
KernelNext ==
    \/ \E k \in Kernels, class \in KernelClasses, kt \in KthetaRanges, ws \in WindowPairs :
          \E a \in Adapters, force_quad \in BOOLEAN, fail \in ResetFails(ws) :
             NewKernel(k, class, kt, ws, a, force_quad, fail)
    \/ \E k \in Kernels, p \in Params : \E fail \in SetCosmologyFails(k) :
          KernelSetCosmology(k, p, fail)
    \/ \E k \in Kernels : \E fail \in KernelCallFails(k) :
          \E l \in QueryArrays(kernel[k].ln_ktheta_min, kernel[k].ln_ktheta_max) :
             KernelCall(k, l, fail)
    \/ \E k \in Kernels, function \in WeightFunctions : \E fail \in WeightedMeanFails(k) :
          KernelWeightedMean(k, function, fail)

Next ==
    \/ \E d \in Profiles : Normalize(d)
    \/ \E d \in Profiles : \E zs \in QueryArrays(dndz[d].z_min, dndz[d].z_max) : DndzCall(d, zs)
    \/ \E w \in Windows, p \in Params : WFSetCosmology(w, p)
    \/ \E w \in Windows, a \in Adapters : WFSetCosmologyObject(w, a)
    \/ \E w \in Windows : \E fail \in FailChoices(wf[w]) :
          \E chi \in QueryArrays(wf[w].chi_min, wf[w].chi_max) : WindowFunctionCall(w, chi, fail)
    \/ \E w \in Windows : \E fail \in FailChoices(wf[w]) : WindowFunctionWrite(w, fail)
    \/ KernelNext

Spec == Init /\ [][Next]_vars

\* the runs whose first window function is a WindowFunctionConvergence over a
\* profile on [2, 4]
ConvergenceInit ==
    /\ \E a2 \in WindowArgs :
          \E cs \in {[a \in Adapters |-> MultiEpoch(0, 0)]} :
          \E c1 \in {construct_window(cs, [d \in Profiles |-> dNdz_init(2, 4, "dNdz")],
                                        <<"WindowFunctionConvergence", "d1">>, "c1")} :
          \E c2 \in {construct_window(cs, c1.dndz, a2, "c2")} :
              /\ dndz = c2.dndz
              /\ wf = [w \in Windows |-> IF w = "w1" THEN c1.wf ELSE c2.wf]
              /\ cosmo = [a \in Adapters |-> IF a = "c1" THEN MultiEpoch(c1.wf.z_min, c1.wf.z_max)
                                             ELSE MultiEpoch(c2.wf.z_min, c2.wf.z_max)]
    /\ kernel = [k \in SharedKernels |-> NoKernel]
    /\ last = Call("none", "none", <<>>, "returned", <<>>, NoRawCalls)
    /\ ncalls = 0

ConvergenceSpec == ConvergenceInit /\ [][Next]_vars

\* the runs in which the window functions are used through a kernel only
KernelSpec == Init /\ [][KernelNext]_vars

\* the calls made on two kernels over the same window functions, no build
\* raising
SharedNext ==
    \/ \E k \in SharedKernels, class \in KernelClasses, kt \in KthetaRanges :
          \E ws \in WindowPairs, a \in Adapters, force_quad \in BOOLEAN :
             NewKernel(k, class, kt, ws, a, force_quad, NoFail)
    \/ \E k \in SharedKernels, p \in Params : KernelSetCosmology(k, p, NoFail)
    \/ \E k \in SharedKernels :
          \E l \in QueryArrays(kernel[k].ln_ktheta_min, kernel[k].ln_ktheta_max) :
             KernelCall(k, l, NoFail)

SharedSpec == Init /\ [][SharedNext]_vars

(***************************************************************************)
(* The properties.                                                         *)
(***************************************************************************)
Min(x, y) == IF x < y THEN x ELSE y
Max(x, y) == IF x > y THEN x ELSE y

\* the last call was op on obj and returned
Returned(op, obj) == last.op = op /\ last.obj = obj /\ last.outcome = "returned"

\* the window functions of kernel k
WA(k) == wf[kernel[k].window_function_a]
WB(k) == wf[kernel[k].window_function_b]

\* C1: after Kernel.set_cosmology returns, the kernel's spline flag is false,
\* z_bar is the peak under the new cosmology and _window_norm is the integral
\* of W_a*W_b over [chi_min, chi_max] under the new cosmology.
C1_ResetRecomputesAll ==
    \A k \in Kernels :
        Returned("Kernel.set_cosmology", k) =>
            /\ ~kernel[k].initialized_spline
            /\ kernel[k].z_bar = find_z_bar(cosmo, wf, kernel[k])
            /\ kernel[k].window_norm = window_norm_integral(wf, kernel[k])

\* C2: every raw_kernel of a built kernel spline, for J0 and J2 and for both
\* quadrature modes, integrated from chi_min to
\* min(chi_max, bessel_limit/ktheta).
C2_IntegralTruncatedAtBesselLimit ==
    \A k \in Kernels :
        kernel[k].initialized_spline =>
            \A i \in 1..KernelNPoints :
                /\ kernel[k].kernel_array[i].lo = kernel[k].chi_min
                /\ kernel[k].kernel_array[i].hi =
                       Min(kernel[k].chi_max,
                           (IF kernel[k].class = "Kernel" THEN J0Limit ELSE J2Limit)
                               \div Exp(kernel[k].ln_ktheta_array[i]))

\* the integral of the unnormalized shape raw_dndz over [z_min, z_max]
RawIntegral(d) ==
    LET raw == [z \in dndz[d].z_min..dndz[d].z_max |-> raw_dndz(dndz[d], <<z, 1>>)]
    IN  Romberg(raw, dndz[d].z_min, dndz[d].z_max)

\* the integral of dndz over [z_min, z_max]
DndzIntegral(d) ==
    LET f == [z \in dndz[d].z_min..dndz[d].z_max |-> dndz_at(dndz[d], <<z, 1>>)]
    IN  Romberg(f, dndz[d].z_min, dndz[d].z_max)

\* normalize() has been called on d at least once: by the last call, or by the
\* constructor of a window function that wraps d
Normalized(d) ==
    \/ last.op = "dNdz.normalize" /\ last.obj = d
    \/ \E w \in Windows : wf[w].redshift_dist = d

\* C3: after n >= 1 calls of normalize() on a profile whose shape has a
\* nonzero integral, norm is the reciprocal of the integral of raw_dndz and
\* dndz integrates to 1.
C3_NormalizeIsIdempotent ==
    \A d \in Profiles :
        (Normalized(d) /\ RawIntegral(d) # Zero) =>
            /\ dndz[d].norm = FDiv(One, RawIntegral(d))
            /\ DndzIntegral(d) = One

\* the calls that reset the cosmology of a window function
WFResets == {"WindowFunction.set_cosmology", "WindowFunction.set_cosmology_object"}

\* C4: right after set_cosmology or set_cosmology_object returns, chi_min and
\* chi_max are the comoving distances of z_min and z_max under the adapter the
\* window function now holds and its parameters, the spline flag is false,
\* and z_min and z_max are what they were.
C4_ResetRecomputesChiBounds ==
    [][\A w \in Windows :
          (last'.op \in WFResets /\ last'.obj = w) =>
              /\ wf'[w].chi_min = comoving_distance(cosmo'[wf'[w].cosmo].params, wf'[w].z_min)
              /\ wf'[w].chi_max = comoving_distance(cosmo'[wf'[w].cosmo].params, wf'[w].z_max)
              /\ ~wf'[w].initialized_spline
              /\ wf'[w].z_min = wf[w].z_min /\ wf'[w].z_max = wf[w].z_max
              /\ last'.op = "WindowFunction.set_cosmology" =>
                     cosmo'[wf'[w].cosmo].params = last'.args[1]
              /\ last'.op = "WindowFunction.set_cosmology_object" =>
                     wf'[w].cosmo = last'.args[1]]_vars

\* a reset that found the spline built and moved chi_max
C4_Witness ==
    \E w \in Windows :
        /\ last.op = "WindowFunction.set_cosmology" /\ last.obj = w
        /\ wf[w].wf_spline # <<>>
        /\ wf[w].chi_max # wf[w].chi_array[WindowNPoints]

\* C5: after Kernel.__init__ and after Kernel.set_cosmology the kernel's domain
\* is the union of the domains of its window functions, in redshift and in
\* comoving distance.
C5_KernelDomainIsUnion ==
    \A k \in Kernels :
        (kernel[k].constructed /\ last.obj = k
         /\ last.op \in {"Kernel.__init__", "Kernel.set_cosmology"}) =>
            /\ kernel[k].z_min = Min(WA(k).z_min, WB(k).z_min)
            /\ kernel[k].z_max = Max(WA(k).z_max, WB(k).z_max)
            /\ kernel[k].chi_min = Min(WA(k).chi_min, WB(k).chi_min)
            /\ kernel[k].chi_max = Max(WA(k).chi_max, WB(k).chi_max)

\* a reset of a kernel whose window functions overlap without either holding
\* the other, under a cosmology that is not the one it was constructed with
C5_Witness ==
    \E k \in Kernels :
        /\ Returned("Kernel.set_cosmology", k)
        /\ WA(k).z_min < WB(k).z_min /\ WA(k).z_max < WB(k).z_max
        /\ WB(k).z_min < WA(k).z_max
        /\ cosmo[kernel[k].cosmo].params # DefaultParams

\* C6: kernel_weighted_mean of the constant function 1 is 1 for window
\* functions with nonzero overlap, right after construction and after any
\* number of Kernel.set_cosmology resets.
C6_WeightedMeanOfOneIsOne ==
    \A k \in Kernels :
        (/\ Returned("Kernel.kernel_weighted_mean", k)
         /\ last.args = <<"one">>
         /\ window_norm_integral(wf, kernel[k]) \notin {Zero, NaN, Inf}) =>
            last.result = <<One>>

\* the value an evaluation returns for x: zero outside [lo, hi], the
\* interpolant inside, bounds included
Masked(x, lo, hi, zero, inside) == IF x < lo \/ x > hi THEN zero ELSE inside

\* C7: dNdz.dndz, WindowFunction.window_function and Kernel.kernel return an
\* array as long as their argument, exactly 0 where the argument is outside
\* the domain and the interpolant where it is inside, bounds included; a call
\* raises only when the build of a spline raised.
C7_ZeroOutsideDomain ==
    /\ \A d \in Profiles :
          (last.op = "dNdz.dndz" /\ last.obj = d) =>
              /\ last.outcome = "returned"
              /\ Len(last.result) = Len(last.args)
              /\ \A i \in 1..Len(last.args) :
                    last.result[i] =
                        Masked(last.args[i], dndz[d].z_min, dndz[d].z_max, Zero,
                               FMul(dndz[d].norm, raw_dndz(dndz[d], <<last.args[i], 1>>)))
    /\ \A w \in Windows :
          (last.op = "WindowFunction.window_function" /\ last.obj = w) =>
              IF last.outcome = "returned"
              THEN /\ Len(last.result) = Len(last.args)
                   /\ \A i \in 1..Len(last.args) :
                         last.result[i] =
                             Masked(last.args[i], wf[w].chi_min, wf[w].chi_max, Zero,
                                    SplineAt(wf[w].wf_spline, last.args[i]))
              ELSE last.raw_calls[w] > 0
    /\ \A k \in Kernels :
          (last.op = "Kernel.kernel" /\ last.obj = k) =>
              IF last.outcome = "returned"
              THEN /\ Len(last.result) = Len(last.args)
                   /\ \A i \in 1..Len(last.args) :
                         last.result[i] =
                             Masked(last.args[i], kernel[k].ln_ktheta_min,
                                    kernel[k].ln_ktheta_max, KernelZero,
                                    KernelSplineAt(kernel[k].kernel_spline, last.args[i]))
              ELSE ~kernel[k].initialized_spline

\* an evaluation of a window function below its domain, at both of its bounds
\* and above it, nonzero at the bounds
C7_Witness ==
    \E w \in Windows :
        /\ Returned("WindowFunction.window_function", w)
        /\ last.args = <<wf[w].chi_min - 1, wf[w].chi_min, wf[w].chi_max, wf[w].chi_max + 1>>
        /\ last.result[1] = Zero /\ last.result[4] = Zero
        /\ last.result[2] # Zero /\ last.result[3] # Zero

\* the calls that build the spline of a window function on demand
WFLazy == {"WindowFunction.window_function", "WindowFunction.write"}

\* the calls on a kernel that invalidate the splines of its window functions
\* before they evaluate them
KernelResets == {"Kernel.__init__", "Kernel.set_cosmology"}

\* C8: a call of window_function or write builds the spline, with exactly
\* WindowNPoints raw_window_function calls, when the flag is false, and makes
\* no raw_window_function call and leaves the window function alone when the
\* flag is true; no call makes raw_window_function calls other than in one
\* build.
C8_LazyBuildOnce ==
    [][\A w \in Windows :
          /\ (last'.op \in WFLazy /\ last'.obj = w) =>
                IF wf[w].initialized_spline
                THEN /\ last'.raw_calls[w] = 0
                     /\ last'.outcome = "returned"
                     /\ wf'[w] = wf[w]
                ELSE /\ last'.outcome = "returned" =>
                        /\ last'.raw_calls[w] = WindowNPoints
                        /\ wf'[w].initialized_spline
                     /\ last'.raw_calls[w] \in 1..WindowNPoints
          /\ last'.raw_calls[w] > 0 =>
                /\ last'.raw_calls[w] <= WindowNPoints
                /\ wf[w].initialized_spline => last'.op \in KernelResets]_vars

\* an evaluation that found the spline built and made no raw_window_function
\* call
C8_Witness ==
    \E w \in Windows :
        /\ Returned("WindowFunction.window_function", w)
        /\ wf[w].initialized_spline
        /\ last.raw_calls[w] = 0

\* C9: a flag that is true goes with a spline fitted from an array the last
\* build filled completely; a call whose build raised leaves the flag of the
\* object whose build it was false: the window function that made the raw
\* calls, or the kernel when the window functions are built.
C9_FailedBuildLeavesFlagFalse ==
    /\ \A w \in Windows :
          /\ wf[w].initialized_spline =>
                /\ wf[w].filled = WindowNPoints
                /\ wf[w].wf_spline = Spline(wf[w].chi_array, wf[w].wf_array)
          /\ (last.outcome = "raised" /\ last.obj = w) => ~wf[w].initialized_spline
          /\ (last.outcome = "raised" /\ last.raw_calls[w] \in 1..(WindowNPoints - 1)) =>
                ~wf[w].initialized_spline
    /\ \A k \in Kernels :
          /\ kernel[k].initialized_spline =>
                /\ kernel[k].filled = KernelNPoints
                /\ kernel[k].kernel_spline =
                       Spline(kernel[k].ln_ktheta_array, kernel[k].kernel_array)
          /\ (last.outcome = "raised" /\ last.obj = k) =>
                IF last.op = "Kernel.kernel" /\ \A w \in Windows : wf[w].initialized_spline
                THEN ~kernel[k].initialized_spline
                ELSE \E w \in Windows :
                        ~wf[w].initialized_spline /\ last.raw_calls[w] > 0

\* a call on a window function whose build raised after it had written part
\* of the array
C9_Witness ==
    \E w \in Windows :
        /\ last.outcome = "raised" /\ last.obj = w
        /\ wf[w].filled \in 1..(WindowNPoints - 1)
        /\ ~wf[w].initialized_spline

\* C10: a normalization integral that is exactly zero is reported as an error
\* or leaves the normalization at 1: the normalization of a profile whose
\* shape vanishes on its domain is 1, kernel_weighted_mean does not return a
\* value when _window_norm is 0, and no stored normalization is inf or nan.
C10_ZeroNormalizationGuarded ==
    /\ \A d \in Profiles :
          /\ (Normalized(d) /\ RawIntegral(d) = Zero) => dndz[d].norm = One
          /\ IsFinite(dndz[d].norm)
    /\ \A k \in Kernels :
          /\ (last.op = "Kernel.kernel_weighted_mean" /\ last.obj = k
              /\ kernel[k].window_norm = Zero) => last.outcome # "returned"
          /\ IsFinite(kernel[k].window_norm)

\* the MultiEpoch object a covers the redshift range of window function w
Covers(a, w) == cosmo[a].z_min <= wf[w].z_min /\ cosmo[a].z_max >= wf[w].z_max

\* C11: a call that hands a window function a MultiEpoch object whose redshift
\* range does not cover [z_min, z_max] of the window function does not return
\* with the object installed: after set_cosmology_object returns, and after
\* Kernel.__init__ or Kernel.set_cosmology returns, the object each window
\* function concerned holds covers its range.
C11_UncoveredRangeIsAnError ==
    /\ \A w \in Windows :
          Returned("WindowFunction.set_cosmology_object", w) => Covers(wf[w].cosmo, w)
    /\ \A k \in Kernels :
          (last.op \in KernelResets /\ last.obj = k /\ last.outcome = "returned") =>
              /\ Covers(WA(k).cosmo, kernel[k].window_function_a)
              /\ Covers(WB(k).cosmo, kernel[k].window_function_b)

\* C12: in every state every window function has chi_min and chi_max equal to
\* the comoving distances of z_min and z_max under the parameters its
\* MultiEpoch object holds now, and a spline flag that is true goes with a
\* spline built under these parameters, whichever holder of the object the
\* parameters were changed through.
C12_SharedAdapterKeepsHoldersFresh ==
    \A w \in Windows :
        /\ wf[w].chi_min = comoving_distance(cosmo[wf[w].cosmo].params, wf[w].z_min)
        /\ wf[w].chi_max = comoving_distance(cosmo[wf[w].cosmo].params, wf[w].z_max)
        /\ wf[w].initialized_spline => wf[w].built_params = cosmo[wf[w].cosmo].params

\* the window functions of kernel k as a build under the parameters their
\* MultiEpoch objects hold now leaves them
Rebuilt(k) ==
    build_windows(cosmo, dndz,
                  [w \in Windows |-> [wf[w] EXCEPT !.initialized_spline = FALSE]],
                  kernel[k].window_function_a, kernel[k].window_function_b, NoFail).wf

\* C13: when two kernels are made over the same window functions, a call
\* kernel() of one of them that returns, whatever resets were made through the
\* other, finds the kernel holding the MultiEpoch object its window functions
\* hold, with chi_min and chi_max merged from their current bounds, z_bar the
\* peak under the current parameters, and returns values of a spline built
\* under the current parameters.
C13_ResetReachesOtherKernel ==
    \A k \in SharedKernels :
        Returned("Kernel.kernel", k) =>
            /\ kernel[k].cosmo = WA(k).cosmo /\ kernel[k].cosmo = WB(k).cosmo
            /\ kernel[k].chi_min = Min(WA(k).chi_min, WB(k).chi_min)
            /\ kernel[k].chi_max = Max(WA(k).chi_max, WB(k).chi_max)
            /\ \A i \in 1..KernelNPoints :
                  kernel[k].kernel_array[i].params = cosmo[WA(k).cosmo].params
            /\ kernel[k].z_bar = find_z_bar(cosmo, Rebuilt(k), kernel[k])

\* C14: whenever a window function's initialized_spline is true, the sample
\* grid its spline was built on spans its current domain: the first point is
\* chi_min and the last is chi_max, also after a reset and a rebuild.
C14_GridSpansCurrentDomain ==
    \A w \in Windows :
        wf[w].initialized_spline =>
            /\ wf[w].chi_array[1] = wf[w].chi_min
            /\ wf[w].chi_array[WindowNPoints] = wf[w].chi_max

\* C15: whenever a build has run raw_window_function of a
\* WindowFunctionConvergence, _g_chi_min was the comoving distance of the
\* source distribution's z_min under the parameters its MultiEpoch object held
\* at that build, so that the lower bound of the lensing integral at every
\* sample point chi was max(chi, comoving_distance(z_min)).
C15_LensingBoundIsCurrent ==
    \A w \in Windows :
        (wf[w].class = "WindowFunctionConvergence" /\ last.raw_calls[w] > 0) =>
            /\ wf[w].g_chi_min =
                  comoving_distance(cosmo[wf[w].cosmo].params, dndz[wf[w].redshift_dist].z_min)
            /\ \A i \in 1..WindowNPoints :
                  lensing_lower_bound(wf[w], wf[w].chi_array[i]) =
                      Max(wf[w].chi_array[i],
                          comoving_distance(cosmo[wf[w].cosmo].params,
                                            dndz[wf[w].redshift_dist].z_min))
====
